---- MODULE Spec2Model ----
(***************************************************************************)
(* A model of github.com/flier/hexdump: the streaming Dumper (dump.go),    *)
(* its entry points Bytes and Stream, the line Formatter, the display      *)
(* styles (style.go) and the color decision.                               *)
(*                                                                         *)
(* A Dumper is the record d: its byte queue b, its formatter f, the once   *)
(* latch, the consumed offset off, the output writer and the configured    *)
(* fields.  Every method of the Go code is an operator from a Dumper (and  *)
(* its arguments) to the Dumper it leaves behind and what it returns; the  *)
(* actions apply these operators to the state.                             *)
(***************************************************************************)
EXTENDS Integers, Sequences, FiniteSets, TLC

(***************************************************************************)
(* Bounds of the model.                                                    *)
(***************************************************************************)
MaxLen == 5      \* longest input byte sequence
MaxWidth == 3    \* LineWidth option ranges over -MaxNegWidth..MaxWidth (0: the default)
MaxNegWidth == 1 \* the most negative LineWidth option
MaxStart == 3    \* Start option ranges over -MaxStart..MaxStart
MaxSkip == 2     \* Skip option ranges over 0..MaxSkip
MaxLength == 2   \* Length option ranges over 0..MaxLength (0: unbounded)
MaxFail == 1     \* the sink accepts 0..MaxFail lines and then fails, or never fails
MaxChunk == 3    \* most bytes passed to one Write of the direct API
MaxInits == 3    \* Flush is called while init has run fewer than MaxInits times
MaxFmtWidth == 4 \* widest line passed to the rendering functions on their own
MaxSessLen == 3  \* bytes passed to each of the sessions that share the process
SessWidth == 2   \* their LineWidth option is 0 (the default) or SessWidth

(***************************************************************************)
(* Program constants.                                                      *)
(***************************************************************************)
DefaultLineWidth == 16

ErrNil == "nil"
ErrEOF == "EOF"
ErrUnexpectedEOF == "unexpected EOF"
ErrSink == "sink write error"
Panic == "panic"

\* The quota of a sink whose writes never fail.
NoLimit == -1

(***************************************************************************)
(* Go's integer division and remainder truncate toward zero.               *)
(***************************************************************************)
Abs(x) == IF x < 0 THEN -x ELSE x

GoDiv(a, b) ==
    IF (a < 0) = (b < 0) THEN Abs(a) \div Abs(b) ELSE -(Abs(a) \div Abs(b))

GoMod(a, b) == a - b * GoDiv(a, b)

(***************************************************************************)
(* The input: byte i of the source.  The values are pairwise distinct, so  *)
(* a dropped, duplicated or reordered byte shows.                          *)
(***************************************************************************)
ByteAt(i) == (37 * i + 11) % 256

Data(n) == [i \in 1..n |-> ByteAt(i)]

Min(a, b) == IF a < b THEN a ELSE b

Max(a, b) == IF a > b THEN a ELSE b

(***************************************************************************)
(* Text.  A string is the sequence of its characters, each character its   *)
(* code point.                                                             *)
(***************************************************************************)
Space == 32     \* ' '
Dot == 46       \* '.'
Zero == 48      \* '0'

\* strings.Repeat and slices.Repeat, for n >= 0
Repeat(x, n) == [i \in 1..n |-> x]

\* unicode.IsPrint for the runes of a byte (Latin-1): letters, marks,
\* numbers, punctuation, symbols and the ASCII space; not the controls
\* 0x00..0x1f and 0x7f..0x9f, the no-break space 0xa0, the soft hyphen 0xad.
IsPrint(r) ==
    \/ r >= 32 /\ r <= 126
    \/ r >= 161 /\ r <= 255 /\ r # 173

\* the digit k of fmt's %d, %o and %x
DigitRune(k) == IF k < 10 THEN Zero + k ELSE 87 + k

RECURSIVE Digits(_, _)
Digits(v, base) ==
    IF v < base THEN <<DigitRune(v)>>
    ELSE Append(Digits(v \div base, base), DigitRune(v % base))

\* fmt's %0wd, %0wo, %0wx: the digits of v, zero-padded to w of them
Sprintf0(w, base, v) ==
    Repeat(Zero, Max(w - Len(Digits(v, base)), 0)) \o Digits(v, base)

(***************************************************************************)
(* DisplayStyle (style.go).                                                *)
(***************************************************************************)
StyleCanonical == 0
StyleOneByteChar == 1
StyleOneByteHex == 2
StyleOneByteOctal == 3
StyleTwoBytesDec == 4
StyleTwoBytesHex == 5
StyleTwoBytesOctal == 6

DisplayStyle == StyleCanonical..StyleTwoBytesOctal

twoBytes == 2

LittleEndian == "LittleEndian"
BigEndian == "BigEndian"

\* s.formatValue(v): fmt.Sprintf(formatValues[s], v)
formatValue(s, v) ==
    CASE s \in {StyleCanonical, StyleOneByteHex} -> Sprintf0(2, 16, v)
      [] s = StyleOneByteChar -> <<Space, Space, v>>
      [] s = StyleOneByteOctal -> Sprintf0(3, 8, v)
      [] s = StyleTwoBytesDec -> <<Space, Space>> \o Sprintf0(5, 10, v)
      [] s = StyleTwoBytesHex -> <<Space, Space, Space>> \o Sprintf0(4, 16, v)
      [] s = StyleTwoBytesOctal -> <<Space>> \o Sprintf0(6, 8, v)

\* s.padding(n), for n >= 0
padding(s, n) ==
    CASE s \in {StyleCanonical, StyleOneByteHex} -> Repeat(Repeat(Space, 2), n)
      [] s \in {StyleOneByteChar, StyleOneByteOctal} ->
             Repeat(Repeat(Space, 3), n)
      [] s \in {StyleTwoBytesHex, StyleTwoBytesOctal, StyleTwoBytesDec} ->
             Repeat(Repeat(Space, 7), n \div twoBytes)
      [] OTHER -> <<>>

\* Mutant: the two bytes are always read low byte first.
Uint16_littleOnly(order, b) == b[1] + 256 * b[2]

\* order.Uint16(b[:2])
Uint16(order, b) ==
    IF order = BigEndian THEN 256 * b[1] + b[2] ELSE b[1] + 256 * b[2]

\* s.formatGroup(b, order), for len(b) > 0: the token and the rest of b
formatGroup(s, b, order) ==
    CASE s \in {StyleCanonical, StyleOneByteHex, StyleOneByteOctal} ->
             [text |-> formatValue(s, b[1]), rest |-> Tail(b)]
      [] s = StyleOneByteChar ->
             IF IsPrint(b[1])
             THEN [text |-> formatValue(s, b[1]), rest |-> Tail(b)]
             ELSE [text |-> padding(s, 1)[1], rest |-> Tail(b)]
      [] s \in {StyleTwoBytesDec, StyleTwoBytesHex, StyleTwoBytesOctal} ->
             IF Len(b) = 1
             THEN [text |-> formatValue(s, b[1]), rest |-> <<>>]
             ELSE [text |-> formatValue(s, Uint16(order, SubSeq(b, 1, 2))),
                   rest |-> SubSeq(b, 3, Len(b))]

RECURSIVE formatGroups(_, _, _)

\* the loop body of formatGroups, after formatGroup returned g
formatGroupsNext(s, g, order) == <<g.text>> \o formatGroups(s, g.rest, order)

\* slices.Collect(s.formatGroups(b, order))
formatGroups(s, b, order) ==
    IF Len(b) > 0 THEN formatGroupsNext(s, formatGroup(s, b, order), order)
    ELSE <<>>

\* s.formatLine(width, skip, buf, order)
formatLine(s, width, skip, buf, order) ==
    padding(s, Max(skip, 0))
      \o formatGroups(s, buf, order)
      \o padding(s, Max(width - skip - Len(buf), 0))

(***************************************************************************)
(* Formatter.charTable: the character column of a line.                    *)
(***************************************************************************)
spaces(n) == Repeat(Space, Max(n, 0))

\* the character shown for the byte c
charOf(c) == IF c >= 128 \/ ~IsPrint(c) THEN Dot ELSE c

charTable(LineWidth, skip, buf) ==
    spaces(skip)
      \o [i \in 1..Len(buf) |-> charOf(buf[i])]
      \o spaces(LineWidth - skip - Len(buf))

(***************************************************************************)
(* ColorMode, and the values of the Dumper's pointer and interface fields. *)
(***************************************************************************)
ColorAuto == 0
ColorAlways == 1
ColorNever == 2

ColorMode == ColorAuto..ColorNever

NativeEndian == "NativeEndian"
DefaultTheme == "DefaultTheme"

\* A nil pointer or interface: the option was not given.
Nil == "nil"

Stdout == "os.Stdout"

(***************************************************************************)
(* New(x...): a Dumper with the options applied.  Output is the io.Writer  *)
(* the options name: the lines it has received and how many more it takes  *)
(* before its Write fails.  handed records the lines given to FormatLine.  *)
(***************************************************************************)
NilFormatter ==
    [set |-> FALSE, werr |-> FALSE, buffered |-> <<>>, LineWidth |-> 0,
     Writer |-> Nil, ColorTheme |-> Nil, DisplayStyle |-> StyleCanonical,
     ByteOrder |-> Nil]

\* dest names the writer (Nil: none given); tty tells whether color is
\* wanted on it in the auto mode (it is a terminal, NO_COLOR is unset and
\* TERM is not dumb).  NoColor is the process-wide variable color.NoColor as
\* the calls on this Dumper find and leave it; no call reads it before its
\* Dumper's initColor has run or the caller's value has been put in (In).
\* inits, colorRuns and formatters count the runs of init and of initColor
\* and the Formatters constructed.
New(x) ==
    [b |-> <<>>, f |-> NilFormatter, once |-> FALSE, off |-> 0,
     Output |-> [lines |-> <<>>, quota |-> x.quota,
                 dest |-> x.Output, tty |-> x.tty],
     LineWidth |-> x.LineWidth, Start |-> x.Start,
     Skip |-> x.Skip, Length |-> x.Length,
     Color |-> x.Color, Theme |-> x.Theme, Style |-> x.Style,
     ByteOrder |-> x.ByteOrder,
     NoColor |-> TRUE, inits |-> 0, colorRuns |-> 0, formatters |-> 0,
     handed |-> <<>>, ran |-> <<>>]

(***************************************************************************)
(* initColor(w, m) assigns the process-wide color.NoColor.                 *)
(***************************************************************************)
initColor(d) ==
    [d EXCEPT !.colorRuns = @ + 1,
              !.NoColor = CASE d.Color = ColorAuto -> ~d.Output.tty
                            [] d.Color = ColorAlways -> FALSE
                            [] d.Color = ColorNever -> TRUE]

(***************************************************************************)
(* Dumper.init, statement by statement: the default output, the color      *)
(* decision, the default theme, byte order and line width, and the         *)
(* Formatter (a bufio.Writer over Output, the theme, the style, the byte   *)
(* order and the line width) unless there is one.                          *)
(***************************************************************************)
initOutput(d) ==
    IF d.Output.dest = Nil THEN [d EXCEPT !.Output.dest = Stdout] ELSE d

initTheme(d) == IF d.Theme = Nil THEN [d EXCEPT !.Theme = DefaultTheme] ELSE d

initByteOrder(d) ==
    IF d.ByteOrder = Nil THEN [d EXCEPT !.ByteOrder = NativeEndian] ELSE d

initLineWidth(d) ==
    IF d.LineWidth = 0 THEN [d EXCEPT !.LineWidth = DefaultLineWidth] ELSE d

\* &Formatter{bufio.NewWriter(d.Output), d.Theme, d.Style, d.ByteOrder, d.LineWidth}
NewFormatter(d) ==
    [set |-> TRUE, werr |-> FALSE, buffered |-> <<>>,
     LineWidth |-> d.LineWidth,
     Writer |-> d.Output.dest, ColorTheme |-> d.Theme,
     DisplayStyle |-> d.Style, ByteOrder |-> d.ByteOrder]

\* Mutant: init constructs a Formatter every time it runs.
initFormatter_always(d) ==
    [d EXCEPT !.f = NewFormatter(d), !.formatters = @ + 1]

\* if d.f == nil { d.f = &Formatter{...} }
initFormatter(d) ==
    IF d.f.set THEN d
    ELSE [d EXCEPT !.f = NewFormatter(d), !.formatters = @ + 1]

initRan(d) == [d EXCEPT !.inits = @ + 1]

init(d) ==
    initRan(initFormatter(initLineWidth(initByteOrder(initTheme(
        initColor(initOutput(d)))))))

\* d.once.Do(d.init)
onceDo(d) == IF d.once THEN d ELSE init([d EXCEPT !.once = TRUE])

(***************************************************************************)
(* The Formatter's bufio.Writer.  buffered is the text it holds, column by *)
(* column: each piece is a column of a line.  A line is its offset, the    *)
(* tokens of its content column and the characters of its character        *)
(* column, kept with the skip and the bytes they were made from; the       *)
(* theme's colors wrap the columns in escape sequences unless              *)
(* color.NoColor is set when the line is rendered.  The text of a line is  *)
(* far shorter than the buffer (4096 bytes), so a column write reaches the *)
(* sink only through Flush.  A bufio.Writer keeps its first write error:   *)
(* every later write and flush returns it, and the text it could not       *)
(* write stays in the buffer.  ran records, for each call of FormatLine,   *)
(* what each step that was executed returned.                              *)
(***************************************************************************)
\* the step's result joins the results of the steps of this line
stepDone(d, err) == [d EXCEPT !.ran[Len(d.ran)] = Append(@, err)]

\* f.WriteString and f.WriteByte, for one column
bufioWrite(d, line, col) ==
    IF d.f.werr
    THEN stepDone(d, ErrSink)
    ELSE stepDone([d EXCEPT !.f.buffered = Append(@, [col |-> col, line |-> line])],
                  ErrNil)

formatOffset(d, line) == bufioWrite(d, line, "offset")

formatContent(d, line) == bufioWrite(d, line, "content")

formatChars(d, line) == bufioWrite(d, line, "chars")

\* The lines in a text: a line ends with its character column ("|\n").
RECURSIVE LinesIn(_)
LinesIn(text) ==
    IF text = <<>> THEN <<>>
    ELSE IF text[1].col = "chars" THEN <<text[1].line>> \o LinesIn(Tail(text))
    ELSE LinesIn(Tail(text))

\* Mutant: Flush reports success and leaves the text in the buffer.
bufioFlush_later(d) == stepDone(d, IF d.f.werr THEN ErrSink ELSE ErrNil)

\* f.Flush(): one Write of the buffered text to the sink
bufioFlush(d) ==
    IF d.f.werr THEN stepDone(d, ErrSink)
    ELSE IF d.f.buffered = <<>> THEN stepDone(d, ErrNil)
    ELSE IF d.Output.quota = 0
    THEN stepDone([d EXCEPT !.f.werr = TRUE], ErrSink)
    ELSE stepDone([d EXCEPT !.Output.lines = @ \o LinesIn(d.f.buffered),
                            !.Output.quota = IF @ = NoLimit THEN @ ELSE @ - 1,
                            !.f.buffered = <<>>],
                  ErrNil)

\* errors.Join(errs...): nil when every error is nil, else an error that
\* wraps the others; here each of them is the sink's error.
Join(errs) ==
    IF \A i \in 1..Len(errs) : errs[i] = ErrNil THEN ErrNil ELSE ErrSink

\* the call of FormatLine begins: the line is handed over, no step has run
FormatLineBegin(d, line) ==
    [d EXCEPT !.handed = Append(@, line), !.ran = Append(@, <<>>)]

\* return errors.Join(...), after the four steps left d
FormatLineDone(d) == [d |-> d, err |-> Join(d.ran[Len(d.ran)])]

\* The arguments of errors.Join are evaluated, in order, before it is
\* called: every step runs, whatever the steps before it returned.
FormatLineSteps(d, line) ==
    FormatLineDone(bufioFlush(formatChars(formatContent(formatOffset(
        FormatLineBegin(d, line), line), line), line)))

(***************************************************************************)
(* Formatter.FormatLine(off, skip, buf)                                    *)
(***************************************************************************)
FormatLine(d, off, skip, buf) ==
    FormatLineSteps(d,
        [off |-> off, skip |-> skip, buf |-> buf,
         tokens |-> formatLine(d.f.DisplayStyle, d.f.LineWidth,
                               skip, buf, d.f.ByteOrder),
         chars |-> charTable(d.f.LineWidth, skip, buf),
         colored |-> ~d.NoColor])

(***************************************************************************)
(* io.ReadFull(&d.b, make([]byte, length)): the bytes read leave the       *)
(* queue, also when there are fewer than length of them.                   *)
(***************************************************************************)
ReadFull(b, length) ==
    IF length <= Len(b)
    THEN [n |-> length, data |-> SubSeq(b, 1, length),
          rest |-> SubSeq(b, length + 1, Len(b)), err |-> ErrNil]
    ELSE [n |-> Len(b), data |-> b, rest |-> <<>>,
          err |-> IF Len(b) = 0 THEN ErrEOF ELSE ErrUnexpectedEOF]

(***************************************************************************)
(* Dumper.flushLine.  Each operator below takes the result of the call     *)
(* before it as a parameter, so that it is computed once.                  *)
(***************************************************************************)
\* d.off += int64(n), after FormatLine returned r
flushLineDone(r, n) ==
    IF r.err # ErrNil
    THEN r
    ELSE [d |-> [r.d EXCEPT !.off = @ + n], err |-> ErrNil]

\* after io.ReadFull returned rd
flushLineRead(d, start, skip, rd) ==
    IF rd.err # ErrNil
    THEN [d |-> [d EXCEPT !.b = rd.rest], err |-> rd.err]
    ELSE flushLineDone(
             FormatLine([d EXCEPT !.b = rd.rest], start, skip, rd.data), rd.n)

\* b := make([]byte, length) panics for a negative length
flushLineMake(d, start, skip, length) ==
    IF length < 0
    THEN [d |-> d, err |-> Panic]
    ELSE flushLineRead(d, start, skip, ReadFull(d.b, length))

\* Mutant: the line's offset is not aligned down to the line width.
flushLine_unaligned(d, all) ==
    LET width == d.LineWidth
        off == d.Start + d.off
        skip == GoMod(off, width)
        length == IF all THEN Len(d.b) ELSE width - skip
    IN  flushLineMake(d, off, skip, length)

flushLine(d, all) ==
    LET width == d.LineWidth
        off == d.Start + d.off
        start == GoDiv(off, width) * width
        skip == GoMod(off, width)
        length == IF all THEN Len(d.b) ELSE width - skip
    IN  flushLineMake(d, start, skip, length)

(***************************************************************************)
(* Dumper.flushLines: skip is computed once, before the loop.              *)
(***************************************************************************)
RECURSIVE flushLoop(_, _)

\* the loop body, after flushLine(false) returned r
flushLoopNext(r, skip) ==
    IF r.err # ErrNil THEN r ELSE flushLoop(r.d, skip)

\* for int(skip)+d.b.Len() >= d.LineWidth { ... }
flushLoop(d, skip) ==
    IF skip + Len(d.b) >= d.LineWidth
    THEN flushLoopNext(flushLine(d, FALSE), skip)
    ELSE [d |-> d, err |-> ErrNil]

\* Mutant: the forced line is emitted also when the queue is empty.
flushRest_emitEmpty(r, all) ==
    IF r.err # ErrNil THEN r
    ELSE IF all THEN flushLine(r.d, TRUE)
    ELSE r

\* Mutant: the forced line is emitted but its bytes stay in the queue.
flushRest_peek(r, all) ==
    IF r.err # ErrNil THEN r
    ELSE IF all /\ Len(r.d.b) > 0
    THEN [flushLine(r.d, TRUE) EXCEPT !.d.b = r.d.b]
    ELSE r

\* if all && d.b.Len() > 0 { ... }, after the loop returned r
flushRest(r, all) ==
    IF r.err # ErrNil THEN r
    ELSE IF all /\ Len(r.d.b) > 0 THEN flushLine(r.d, TRUE)
    ELSE r

\* the body of flushLines after d.once.Do(d.init)
flushInited(d, all) ==
    LET width == d.LineWidth
        off == d.Start + d.off
        skip == GoMod(off, width)
    IN  flushRest(flushLoop(d, skip), all)

flushLines(d, all) == flushInited(onceDo(d), all)

(***************************************************************************)
(* Dumper.Flush and Dumper.Write                                           *)
(***************************************************************************)
\* Mutant: Flush does not force the remainder out.
Flush_noForce(d) == flushLines(init(d), FALSE)

Flush(d) == flushLines(init(d), TRUE)

\* what Write returns after flushLines(false) returned r
WriteDone(r, nn) ==
    IF r.err # ErrNil
    THEN [d |-> r.d, n |-> 0, err |-> r.err]
    ELSE [d |-> r.d, n |-> nn, err |-> ErrNil]

Write(d, p) == WriteDone(flushLines([d EXCEPT !.b = @ \o p], FALSE), Len(p))

(***************************************************************************)
(* Bytes(b, x...): b[d.Skip:] and b[:d.Length] panic out of range.  The    *)
(* caller's slice is taken to be full, cap(b) = len(b), so b[:d.Length]    *)
(* panics as soon as d.Length exceeds the bytes left.                      *)
(***************************************************************************)
\* return d.Flush(), after d.Write(b) returned w
BytesDone(w) ==
    IF w.err # ErrNil
    THEN [d |-> w.d, err |-> w.err]
    ELSE Flush(w.d)

\* the bytes Bytes passes to Write
BytesWindow(b, x) ==
    LET b1 == IF x.Skip > 0 THEN SubSeq(b, x.Skip + 1, Len(b)) ELSE b
    IN  IF x.Length > 0 THEN SubSeq(b1, 1, x.Length) ELSE b1

BytesPanics(b, x) ==
    \/ x.Skip > 0 /\ x.Skip > Len(b)
    \/ x.Length > 0 /\ x.Length > Len(b) - (IF x.Skip > 0 THEN x.Skip ELSE 0)

Bytes(b, x) ==
    LET d0 == New(x)
        d1 == IF d0.Skip > 0 THEN [d0 EXCEPT !.off = d0.Skip] ELSE d0
    IN  IF BytesPanics(b, x)
        THEN [d |-> d0, err |-> Panic]
        ELSE BytesDone(Write(d1, BytesWindow(b, x)))

(***************************************************************************)
(* Range(start, end): the Skip and the Length it sets on the Dumper.       *)
(***************************************************************************)
Range(start, end) ==
    IF start > end
    THEN [Skip |-> end, Length |-> start - end]
    ELSE [Skip |-> start, Length |-> end - start]

(***************************************************************************)
(* Stream(r, x...), first part: io.CopyN(io.Discard, r, d.Skip).           *)
(***************************************************************************)
StreamSkip(b, x) ==
    LET d0 == New(x)
        n == Min(d0.Skip, Len(b))
    IN  IF d0.Skip > 0
        THEN [d |-> [d0 EXCEPT !.off = n], pos |-> n,
              err |-> IF n < d0.Skip THEN ErrEOF ELSE ErrNil]
        ELSE [d |-> d0, pos |-> 0, err |-> ErrNil]

\* The bytes Stream's reader still holds: all of them, or the rest of the
\* io.LimitedReader's N = d.Length.
StreamLeft(b, x, at) ==
    LET first == IF x.Skip > 0 THEN Min(x.Skip, Len(b)) ELSE 0
        rest == Len(b) - at
    IN  IF x.Length > 0 THEN Min(rest, x.Length - (at - first)) ELSE rest

(***************************************************************************)
(* The state.                                                              *)
(***************************************************************************)
VARIABLES
    opts,       \* the options of the session
    api,        \* how the caller drives it: "Dumper", "Bytes" or "Stream"
    input,      \* the caller's bytes
    d,          \* the Dumper
    pc,         \* "new", "open" (Dumper in use), "copy" (Stream's io.Copy), "done"
    pos,        \* how many bytes of input have been taken
    wrote,      \* the bytes passed to Write so far, in order
    ret,        \* what the last call returned (and prev: the call before it)
    phase,      \* "writing", "flushed" (Flush called, no Write since the first), "reopened"
    sinceFlush, \* bytes passed to Write since the last Flush
    NoColor,    \* color.NoColor, the process-wide variable of fatih/color
    call,       \* the arguments of a call of the Formatter's rendering functions
    tokens,     \* what DisplayStyle.formatLine returned for them
    chars,      \* what Formatter.charTable returned for them
    fpc,        \* "new", "content" (formatLine returned), "done"; "off"
    sess,       \* the Dumpers of the sessions that share the process
    fed         \* how many bytes each of them has been passed

dumpVars == <<opts, api, input, d, pc, pos, wrote, ret, phase, sinceFlush>>
fmtVars == <<call, tokens, chars, fpc>>
sessVars == <<sess, fed>>
vars == <<dumpVars, NoColor, fmtVars, sessVars>>

\* The Dumper as a call on it finds it: with the process-wide color.NoColor.
In(dd) == [dd EXCEPT !.NoColor = NoColor]

\* color.NoColor after a call that left the Dumper dd: what the call's
\* initColor assigned, if it ran on dd at all.
Global(dd) == IF dd.colorRuns > 0 THEN dd.NoColor ELSE NoColor

\* No rendering call and no concurrent sessions are under observation.
NoCall == [style |-> StyleCanonical, width |-> 0, skip |-> 0, buf |-> <<>>,
           order |-> LittleEndian]
NoFormat == call = NoCall /\ tokens = <<>> /\ chars = <<>> /\ fpc = "off"
NoSessions == sess = <<>> /\ fed = <<>>

\* The sessions of Spec write to a writer of their own that is no terminal
\* and leave color, theme, style and byte order at their defaults.
Options ==
    [LineWidth : (-MaxNegWidth)..MaxWidth, Start : (-MaxStart)..MaxStart,
     Skip : 0..MaxSkip, Length : 0..MaxLength,
     quota : (0..MaxFail) \cup {NoLimit},
     Output : {"w"}, tty : {FALSE}, Color : {ColorAuto}, Theme : {Nil},
     Style : {StyleCanonical}, ByteOrder : {Nil}]

NoRet == [op |-> "none", prev |-> "none", n |-> 0, len |-> 0, err |-> ErrNil]

Init ==
    /\ api \in {"Dumper", "Bytes", "Stream"}
    /\ opts \in Options
    /\ api = "Dumper" => opts.Skip = 0 /\ opts.Length = 0
    /\ \E n \in 0..MaxLen : input = Data(n)
    /\ d = New(opts)
    /\ pc = "new"
    /\ pos = 0
    /\ wrote = <<>>
    /\ ret = NoRet
    /\ phase = "writing"
    /\ sinceFlush = 0
    /\ NoColor \in BOOLEAN
    /\ NoFormat
    /\ NoSessions

(***************************************************************************)
(* The caller uses the Dumper directly: d.Write(p) with the next k bytes.  *)
(***************************************************************************)
DoWrite(k) ==
    /\ api = "Dumper"
    /\ pos + k <= Len(input)
    /\ \E r \in {Write(In(d), SubSeq(input, pos + 1, pos + k))} :
           /\ d' = r.d
           /\ NoColor' = Global(r.d)
           /\ ret' = [op |-> "Write", prev |-> ret.op, n |-> r.n, len |-> k, err |-> r.err]
           /\ wrote' = wrote \o SubSeq(input, pos + 1, pos + k)
    /\ pos' = pos + k
    /\ pc' = "open"
    /\ phase' = IF phase = "writing" THEN "writing" ELSE "reopened"
    /\ sinceFlush' = sinceFlush + k
    /\ UNCHANGED <<opts, api, input, fmtVars, sessVars>>

\* d.Flush()
DoFlush ==
    /\ api = "Dumper"
    /\ d.inits < MaxInits
    /\ \E r \in {Flush(In(d))} :
           /\ d' = r.d
           /\ NoColor' = Global(r.d)
           /\ ret' = [op |-> "Flush", prev |-> ret.op, n |-> 0, len |-> 0, err |-> r.err]
    /\ pc' = "open"
    /\ phase' = IF phase = "reopened" THEN "reopened" ELSE "flushed"
    /\ sinceFlush' = 0
    /\ UNCHANGED <<opts, api, input, pos, wrote, fmtVars, sessVars>>

(***************************************************************************)
(* Bytes(input, opts...)                                                   *)
(***************************************************************************)
CallBytes ==
    /\ api = "Bytes"
    /\ pc = "new"
    /\ \E r \in {Bytes(input, opts)} :
           /\ d' = r.d
           /\ NoColor' = Global(r.d)
           /\ ret' = [op |-> "Bytes", prev |-> ret.op, n |-> 0, len |-> 0, err |-> r.err]
    /\ wrote' = IF BytesPanics(input, opts) THEN <<>> ELSE BytesWindow(input, opts)
    /\ pc' = "done"
    /\ pos' = Len(input)
    /\ phase' = "flushed"
    /\ sinceFlush' = 0
    /\ UNCHANGED <<opts, api, input, fmtVars, sessVars>>

(***************************************************************************)
(* Stream(r, opts...): the skip, then io.Copy(d, r), one Write for each    *)
(* chunk the reader hands out, then Flush.                                 *)
(***************************************************************************)
StreamOpen ==
    /\ api = "Stream"
    /\ pc = "new"
    /\ \E r \in {StreamSkip(input, opts)} :
           /\ d' = r.d
           /\ pos' = r.pos
           /\ pc' = IF r.err # ErrNil THEN "done" ELSE "copy"
           /\ ret' = [op |-> "Stream", prev |-> ret.op, n |-> 0, len |-> 0, err |-> r.err]
    /\ UNCHANGED <<opts, api, input, wrote, phase, sinceFlush, NoColor,
                   fmtVars, sessVars>>

StreamCopy(k) ==
    /\ pc = "copy"
    /\ k <= StreamLeft(input, opts, pos)
    /\ \E r \in {Write(In(d), SubSeq(input, pos + 1, pos + k))} :
           /\ d' = r.d
           /\ NoColor' = Global(r.d)
           /\ ret' = [op |-> "Stream", prev |-> ret.op, n |-> r.n, len |-> k, err |-> r.err]
           /\ pc' = IF r.err # ErrNil THEN "done" ELSE "copy"
           /\ wrote' = wrote \o SubSeq(input, pos + 1, pos + k)
    /\ pos' = pos + k
    /\ sinceFlush' = sinceFlush + k
    /\ UNCHANGED <<opts, api, input, phase, fmtVars, sessVars>>

StreamFlush ==
    /\ pc = "copy"
    /\ StreamLeft(input, opts, pos) = 0
    /\ \E r \in {Flush(In(d))} :
           /\ d' = r.d
           /\ NoColor' = Global(r.d)
           /\ ret' = [op |-> "Stream", prev |-> ret.op, n |-> 0, len |-> 0, err |-> r.err]
    /\ pc' = "done"
    /\ phase' = "flushed"
    /\ sinceFlush' = 0
    /\ UNCHANGED <<opts, api, input, pos, wrote, fmtVars, sessVars>>

Next ==
    \/ \E k \in 0..MaxChunk : DoWrite(k)
    \/ DoFlush
    \/ CallBytes
    \/ StreamOpen
    \/ \E k \in 1..MaxLen : StreamCopy(k)
    \/ StreamFlush

Spec == Init /\ [][Next]_vars

(***************************************************************************)
(* The rendering functions on their own: FormatLine's formatContent calls  *)
(* DisplayStyle.formatLine, then its formatChars calls charTable, on one   *)
(* line.  The line is any line a Dumper with a Start >= 0 hands over:      *)
(* 0 <= skip < width, with 1 to width - skip bytes; its first byte is any  *)
(* byte value.                                                             *)
(***************************************************************************)
Byte == 0..255

Payload(b0, n) == [i \in 1..n |-> (b0 + 37 * (i - 1)) % 256]

DefaultOptions ==
    [LineWidth |-> 0, Start |-> 0, Skip |-> 0, Length |-> 0,
     quota |-> NoLimit, Output |-> Nil, tty |-> FALSE, Color |-> ColorAuto,
     Theme |-> Nil, Style |-> StyleCanonical, ByteOrder |-> Nil]

\* No Dumper of the single-session specification is in use.
NoDumper ==
    /\ api = "none"
    /\ opts = DefaultOptions
    /\ input = <<>>
    /\ d = New(DefaultOptions)
    /\ pc = "off"
    /\ pos = 0
    /\ wrote = <<>>
    /\ ret = NoRet
    /\ phase = "writing"
    /\ sinceFlush = 0

InitFormat ==
    /\ NoDumper
    /\ NoSessions
    /\ NoColor = TRUE
    /\ \E s \in DisplayStyle, o \in {LittleEndian, BigEndian},
          w \in 1..MaxFmtWidth, b0 \in Byte :
           \E k \in 0..(w - 1) :
               \E n \in 1..(w - k) :
                   call = [style |-> s, width |-> w, skip |-> k,
                           buf |-> Payload(b0, n), order |-> o]
    /\ tokens = <<>>
    /\ chars = <<>>
    /\ fpc = "new"

\* f.formatLine(f.LineWidth, skip, buf, f.ByteOrder) in formatContent
CallFormatLine ==
    /\ fpc = "new"
    /\ tokens' = formatLine(call.style, call.width, call.skip, call.buf,
                            call.order)
    /\ fpc' = "content"
    /\ UNCHANGED <<dumpVars, NoColor, sessVars, call, chars>>

\* f.charTable(skip, buf) in formatChars
CallCharTable ==
    /\ fpc = "content"
    /\ chars' = charTable(call.width, call.skip, call.buf)
    /\ fpc' = "done"
    /\ UNCHANGED <<dumpVars, NoColor, sessVars, call, tokens>>

NextFormat == CallFormatLine \/ CallCharTable

SpecFormat == InitFormat /\ [][NextFormat]_vars

(***************************************************************************)
(* Two sessions in one process: each has a Dumper of its own, with a color *)
(* mode of its own, and the caller's Write and Flush calls on the two are  *)
(* interleaved.  The output, theme and byte order options are given, or    *)
(* all three are left to init; the environment (tty) may or may not want   *)
(* color.                                                                  *)
(***************************************************************************)
Sessions == {1, 2}

SessionOptions(w, tty, given, c) ==
    [DefaultOptions EXCEPT !.LineWidth = w, !.tty = tty, !.Color = c,
                           !.Output = IF given THEN "w" ELSE Nil,
                           !.Theme = IF given THEN "theme" ELSE Nil,
                           !.ByteOrder = IF given THEN BigEndian ELSE Nil]

InitSessions ==
    /\ NoDumper
    /\ NoFormat
    /\ NoColor \in BOOLEAN
    /\ \E w \in {0, SessWidth}, tty \in BOOLEAN, given \in BOOLEAN,
          c \in [Sessions -> ColorMode] :
           sess = [s \in Sessions |-> New(SessionOptions(w, tty, given, c[s]))]
    /\ fed = [s \in Sessions |-> 0]

\* sess[s].Write(p) with the next k bytes
SessWrite(s, k) ==
    /\ fed[s] + k <= MaxSessLen
    /\ \E r \in {Write(In(sess[s]),
                        SubSeq(Data(MaxSessLen), fed[s] + 1, fed[s] + k))} :
           /\ sess' = [sess EXCEPT ![s] = r.d]
           /\ NoColor' = Global(r.d)
    /\ fed' = [fed EXCEPT ![s] = @ + k]
    /\ UNCHANGED <<dumpVars, fmtVars>>

\* sess[s].Flush()
SessFlush(s) ==
    /\ sess[s].inits < MaxInits
    /\ \E r \in {Flush(In(sess[s]))} :
           /\ sess' = [sess EXCEPT ![s] = r.d]
           /\ NoColor' = Global(r.d)
    /\ UNCHANGED <<dumpVars, fmtVars, fed>>

NextSessions ==
    \E s \in Sessions :
        \/ \E k \in 1..MaxSessLen : SessWrite(s, k)
        \/ SessFlush(s)

SpecSessions == InitSessions /\ [][NextSessions]_vars

(***************************************************************************)
(* Vocabulary of the properties.                                           *)
(***************************************************************************)
\* The payloads of a sequence of lines, concatenated in order.
RECURSIVE PayloadOf(_)
PayloadOf(lines) ==
    IF lines = <<>> THEN <<>> ELSE lines[1].buf \o PayloadOf(Tail(lines))

\* The lines the sink has received.
Emitted == d.Output.lines

\* The lines a step added to the sink.
NewLines == SubSeq(d'.Output.lines, Len(d.Output.lines) + 1, Len(d'.Output.lines))

SinkNeverFails == opts.quota = NoLimit

\* A line that ends at the line boundary.
FullLine(l, width) == l.skip + Len(l.buf) = width

\* The bytes Stream passes to Write when no call fails.
StreamWindow(b, x) ==
    SubSeq(b, StreamSkip(b, x).pos + 1,
           StreamSkip(b, x).pos + StreamLeft(b, x, StreamSkip(b, x).pos))

\* A step that is a call of Flush, by the caller or by Stream.
FlushCall == DoFlush \/ StreamFlush

(***************************************************************************)
(* C1: chunking invariance.  A Stream session (the window written in any   *)
(* chunks, then one Flush) ends with the status and the sink contents of   *)
(* one Write of the whole window followed by Flush, for the same           *)
(* configuration and skip basis.                                           *)
(***************************************************************************)
C1_ChunkingInvariance ==
    (/\ api = "Stream" /\ pc = "done" /\ SinkNeverFails
     /\ StreamSkip(input, opts).err = ErrNil)
    => \E ref \in {BytesDone(Write(StreamSkip(input, opts).d,
                                   StreamWindow(input, opts)))} :
           /\ ret.err = ref.err
           /\ Emitted = ref.d.Output.lines

(***************************************************************************)
(* C2: byte conservation.  After Write calls followed by Flush, the        *)
(* payloads of the emitted lines, concatenated, are the bytes passed to    *)
(* Write.                                                                  *)
(***************************************************************************)
C2_ByteConservation ==
    (api = "Dumper" /\ phase = "flushed" /\ SinkNeverFails)
    => PayloadOf(Emitted) = wrote

(***************************************************************************)
(* C3: offset monotonicity.  Within one session (Write calls, then Flush)  *)
(* every emitted line's offset is a multiple of the line width and is the  *)
(* offset of the line before it plus the line width.                       *)
(***************************************************************************)
C3_OffsetMonotonic ==
    phase # "reopened"
    => \A i \in 1..Len(Emitted) :
           /\ Emitted[i].off % d.LineWidth = 0
           /\ i > 1 => Emitted[i].off = Emitted[i - 1].off + d.LineWidth

C3_Witness ==
    /\ phase = "flushed"
    /\ Len(Emitted) >= 3
    /\ Emitted[1].skip > 0
    /\ opts.Start # 0

(***************************************************************************)
(* C4: first-line placement.  For Bytes and Stream the first emitted line  *)
(* has the largest multiple of the line width not exceeding Start + Skip   *)
(* as its offset, and (Start + Skip) mod lineWidth as its leading skip.    *)
(***************************************************************************)
C4_FirstLinePlacement ==
    (api \in {"Bytes", "Stream"} /\ Len(Emitted) > 0)
    => /\ Emitted[1].skip = (opts.Start + opts.Skip) % d.LineWidth
       /\ Emitted[1].off =
              (opts.Start + opts.Skip) - ((opts.Start + opts.Skip) % d.LineWidth)

(***************************************************************************)
(* C5: line-record invariant.  Every line handed to the formatter has      *)
(* 0 <= leadingSkip < lineWidth and leadingSkip + len(payload) <=          *)
(* lineWidth, and every line but the last of the session fills exactly to  *)
(* the line boundary.                                                      *)
(***************************************************************************)
C5_LineRecord ==
    phase # "reopened"
    => \A i \in 1..Len(d.handed) :
           /\ 0 <= d.handed[i].skip
           /\ d.handed[i].skip < d.LineWidth
           /\ d.handed[i].skip + Len(d.handed[i].buf) <= d.LineWidth
           /\ i < Len(d.handed) => FullLine(d.handed[i], d.LineWidth)

(***************************************************************************)
(* C6: with a sink that never fails, every Write returns len(p) and nil.   *)
(***************************************************************************)
C6_WriteNeverFails ==
    (SinkNeverFails /\ ret.op = "Write" /\ d.LineWidth > 0)
    => ret.err = ErrNil /\ ret.n = ret.len

(***************************************************************************)
(* C7: Flush drains the queue.  After a successful Flush the queue is      *)
(* empty; the bytes that remained were emitted in order, as full lines     *)
(* followed by at most one final short line (no line is longer than the    *)
(* line width, no line is empty); with an empty queue Flush writes         *)
(* nothing and hands nothing to the formatter.                             *)
(***************************************************************************)
C7_FlushDrains ==
    [][(FlushCall /\ ret'.err = ErrNil)
       => /\ d'.b = <<>>
          /\ SubSeq(d'.Output.lines, 1, Len(Emitted)) = Emitted
          /\ d.b = <<>> => (NewLines = <<>> /\ d'.handed = d.handed)
          /\ d.b # <<>> =>
                 /\ NewLines # <<>>
                 /\ PayloadOf(NewLines) = d.b
                 /\ \A i \in 1..(Len(NewLines) - 1) :
                        FullLine(NewLines[i], d'.LineWidth)
                 /\ NewLines[Len(NewLines)].buf # <<>>
                 /\ NewLines[Len(NewLines)].skip
                      + Len(NewLines[Len(NewLines)].buf) <= d'.LineWidth]_vars

C7_Witness ==
    /\ opts.Start > 0
    /\ ret.op = "Flush" /\ ret.prev = "Write" /\ ret.err = ErrNil
    /\ d.b = <<>>
    /\ Len(Emitted) >= 2
    /\ ~FullLine(Emitted[Len(Emitted)], d.LineWidth)

(***************************************************************************)
(* C8: idempotent flush.  A Flush directly after a successful Flush writes *)
(* nothing, leaves the queue and the consumed offset as they are, and      *)
(* returns success.                                                        *)
(***************************************************************************)
C8_FlushIdempotent ==
    [][(DoFlush /\ ret.op = "Flush" /\ ret.err = ErrNil)
       => /\ d'.Output = d.Output
          /\ d'.handed = d.handed
          /\ d'.b = d.b
          /\ d'.off = d.off
          /\ ret'.err = ErrNil]_vars

C8_Witness ==
    /\ opts.Start > 0
    /\ ret.op = "Flush" /\ ret.prev = "Flush" /\ ret.err = ErrNil
    /\ Len(Emitted) >= 1
    /\ d.off > 0

(***************************************************************************)
(* C9 as claimed: once Flush has been called, no later Write or Flush      *)
(* produces any further output.                                            *)
(***************************************************************************)
C9_FlushedIsTerminal ==
    [][phase # "writing" => d'.Output.lines = d.Output.lines]_vars

(***************************************************************************)
(* C9 as amended: Flush is not terminal, a later Write or Flush still      *)
(* emits lines; but what a call emits after a Flush is made only of bytes  *)
(* passed to Write after that Flush, in the order they were written, so a  *)
(* Flush forces at most one short line for the bytes written before it.    *)
(***************************************************************************)
C9_OnlyLaterBytes ==
    [][phase # "writing"
       => \E k \in 0..Len(wrote') :
              /\ k >= Len(wrote') - sinceFlush - (Len(wrote') - Len(wrote))
              /\ k + Len(PayloadOf(NewLines)) <= Len(wrote')
              /\ PayloadOf(NewLines)
                   = SubSeq(wrote', k + 1, k + Len(PayloadOf(NewLines)))]_vars

C9_Witness ==
    /\ opts.Start > 0
    /\ phase = "reopened"
    /\ ret.op = "Flush" /\ ret.err = ErrNil
    /\ Len(Emitted) >= 3
    /\ ~FullLine(Emitted[1], d.LineWidth)
    /\ ~FullLine(Emitted[Len(Emitted)], d.LineWidth)

(***************************************************************************)
(* C10: Skip/Length window.  Bytes and Stream with Skip = s and Length =   *)
(* n > 0, s + n within the input, render exactly the input bytes at        *)
(* positions s .. s+n-1, and both produce the same lines.                  *)
(***************************************************************************)
C10_SkipLengthWindow ==
    (/\ api \in {"Bytes", "Stream"} /\ pc = "done" /\ SinkNeverFails
     /\ opts.Length > 0 /\ opts.Skip + opts.Length <= Len(input))
    => /\ ret.err = ErrNil
       /\ PayloadOf(Emitted)
            = SubSeq(input, opts.Skip + 1, opts.Skip + opts.Length)
       /\ api = "Stream" => Emitted = Bytes(input, opts).d.Output.lines

(***************************************************************************)
(* C11: input exhaustion is not an error.  When the input holds fewer than *)
(* Length bytes after the skipped prefix, Bytes and Stream render exactly  *)
(* the bytes that are there and return success.                            *)
(***************************************************************************)
C11_InputExhaustion ==
    (/\ api \in {"Bytes", "Stream"} /\ pc = "done" /\ SinkNeverFails
     /\ opts.Length > 0 /\ opts.Skip <= Len(input)
     /\ Len(input) - opts.Skip < opts.Length)
    => /\ ret.err = ErrNil
       /\ PayloadOf(Emitted) = SubSeq(input, opts.Skip + 1, Len(input))

(***************************************************************************)
(* Vocabulary of the properties of the rendering functions.                *)
(***************************************************************************)
TwoByteStyles == {StyleTwoBytesDec, StyleTwoBytesHex, StyleTwoBytesOctal}

groupSize(s) == IF s \in TwoByteStyles THEN 2 ELSE 1

CeilDiv(a, b) == (a + b - 1) \div b

\* The printable ASCII characters, 0x20 .. 0x7e.
PrintableASCII(b) == b >= 32 /\ b <= 126

\* formatLine has returned the tokens of the call.
Formatted == fpc \in {"content", "done"}

\* The number a token's text denotes in the style's base, its leading
\* spaces left out.
RECURSIVE Unpadded(_)
Unpadded(t) == IF t # <<>> /\ t[1] = Space THEN Unpadded(Tail(t)) ELSE t

DigitValue(r) == IF r >= 97 THEN r - 87 ELSE r - Zero

RECURSIVE ParseNum(_, _)
ParseNum(t, base) ==
    IF t = <<>> THEN 0
    ELSE ParseNum(SubSeq(t, 1, Len(t) - 1), base) * base + DigitValue(t[Len(t)])

Base(s) ==
    CASE s = StyleTwoBytesDec -> 10
      [] s = StyleTwoBytesHex -> 16
      [] s = StyleTwoBytesOctal -> 8

TokenValue(s, t) == ParseNum(Unpadded(t), Base(s))

(***************************************************************************)
(* C12: token count.  For every style, line width, leading skip and        *)
(* payload with leadingSkip + len(payload) <= lineWidth, formatLine        *)
(* returns exactly ceil(lineWidth / groupSize) tokens.                     *)
(***************************************************************************)
C12_TokenCount ==
    (Formatted /\ call.skip + Len(call.buf) <= call.width)
    => Len(tokens) = CeilDiv(call.width, groupSize(call.style))

(***************************************************************************)
(* C13: character column.  The character column of every emitted line is  *)
(* exactly lineWidth characters: leadingSkip spaces, then for each payload *)
(* byte the byte itself iff it is printable ASCII and '.' otherwise, then  *)
(* spaces.                                                                 *)
(***************************************************************************)
C13_CharColumn ==
    \A i \in 1..Len(Emitted) :
        /\ Len(Emitted[i].chars) = d.LineWidth
        /\ \A j \in 1..Len(Emitted[i].chars) :
               Emitted[i].chars[j] =
                   IF j <= Emitted[i].skip
                       \/ j > Emitted[i].skip + Len(Emitted[i].buf)
                   THEN Space
                   ELSE IF PrintableASCII(Emitted[i].buf[j - Emitted[i].skip])
                   THEN Emitted[i].buf[j - Emitted[i].skip]
                   ELSE Dot

(***************************************************************************)
(* C14: two-byte token value.  In the two-byte styles the payload is       *)
(* consumed two bytes at a time from its start: after the padding of the   *)
(* leading skip comes one token for each pair and one for a single byte    *)
(* left at the end.  The token of a pair (b0, b1) denotes b0 + 256*b1      *)
(* under little-endian and 256*b0 + b1 under big-endian; the token of a    *)
(* single last byte b0 denotes b0 under either order.                      *)
(***************************************************************************)
C14_TwoByteValue ==
    (Formatted /\ call.style \in TwoByteStyles)
    => /\ Len(tokens) >= call.skip \div 2 + CeilDiv(Len(call.buf), 2)
       /\ \A i \in 1..CeilDiv(Len(call.buf), 2) :
              TokenValue(call.style, tokens[call.skip \div 2 + i]) =
                  IF 2 * i > Len(call.buf) THEN call.buf[2 * i - 1]
                  ELSE IF call.order = LittleEndian
                  THEN call.buf[2 * i - 1] + 256 * call.buf[2 * i]
                  ELSE 256 * call.buf[2 * i - 1] + call.buf[2 * i]
       /\ \A i \in 1..Len(tokens) :
              (i <= call.skip \div 2
                 \/ i > call.skip \div 2 + CeilDiv(Len(call.buf), 2))
              => Unpadded(tokens[i]) = <<>>

C14_Witness ==
    /\ fpc = "done"
    /\ call.style = StyleTwoBytesDec
    /\ call.order = BigEndian
    /\ Len(call.buf) = 3
    /\ call.buf[1] > 0 /\ call.buf[1] # call.buf[2]
    /\ Len(tokens) = 2

(***************************************************************************)
(* C15: char-style classification.  In the one-byte char style the token   *)
(* of a byte shows the byte's character iff the byte is printable ASCII;   *)
(* for every other byte it is a blank slot of the same width, and the      *)
(* token shows the character exactly when the character column does.       *)
(***************************************************************************)
C15_CharClassification ==
    (fpc = "done" /\ call.style = StyleOneByteChar)
    => \A i \in 1..Len(call.buf) :
           /\ tokens[call.skip + i] = <<Space, Space, call.buf[i]>>
                <=> PrintableASCII(call.buf[i])
           /\ ~PrintableASCII(call.buf[i])
                => tokens[call.skip + i] = <<Space, Space, Space>>
           /\ tokens[call.skip + i] = <<Space, Space, call.buf[i]>>
                <=> chars[call.skip + i] = call.buf[i]

(***************************************************************************)
(* C16: Range.  Range(start, end) is symmetric in its arguments and, for   *)
(* 0 <= start, end <= len(input), Bytes and Stream with the Skip and       *)
(* Length it sets succeed and render exactly the input bytes at positions  *)
(* min(start, end) .. max(start, end) - 1.                                 *)
(***************************************************************************)
C16_Range ==
    (api \in {"Bytes", "Stream"} /\ pc = "done" /\ SinkNeverFails)
    => \A start, end \in 0..Len(input) :
           (/\ opts.Skip = Range(start, end).Skip
            /\ opts.Length = Range(start, end).Length)
           => /\ Range(end, start) = Range(start, end)
              /\ ret.err = ErrNil
              /\ PayloadOf(Emitted)
                   = SubSeq(input, Min(start, end) + 1, Max(start, end))

(***************************************************************************)
(* C18: eager emission leaves less than a line buffered.  After every      *)
(* Write that returns success the queued bytes do not complete a line:     *)
(* the current leading skip plus the queue length is below the line width, *)
(* so at most lineWidth - 1 bytes are queued.                              *)
(***************************************************************************)
C18_LessThanALineQueued ==
    (ret.op = "Write" /\ ret.err = ErrNil)
    => /\ GoMod(d.Start + d.off, d.LineWidth) + Len(d.b) < d.LineWidth
       /\ Len(d.b) <= d.LineWidth - 1

(***************************************************************************)
(* C19: color resolution happens at most once per session.  Over any       *)
(* sequence of Write and Flush calls on one Dumper, the Write-then-Flush   *)
(* of Bytes and Stream included, initColor is executed at most once.       *)
(***************************************************************************)
C19_ColorResolvedOnce == d.colorRuns <= 1

(***************************************************************************)
(* Vocabulary of the properties of concurrent sessions.                    *)
(***************************************************************************)
\* Whether the color mode of the Dumper dd asks for colored lines.
WantsColor(dd) ==
    CASE dd.Color = ColorAlways -> TRUE
      [] dd.Color = ColorNever -> FALSE
      [] dd.Color = ColorAuto -> dd.Output.tty

\* The Formatter of dd is built from the values dd has resolved.
FormatterOf(dd) ==
    /\ dd.f.set
    /\ dd.f.Writer = dd.Output.dest
    /\ dd.f.ColorTheme = dd.Theme
    /\ dd.f.ByteOrder = dd.ByteOrder
    /\ dd.f.LineWidth = dd.LineWidth

Resolved(dd) ==
    /\ dd.Output.dest # Nil
    /\ dd.Theme # Nil
    /\ dd.ByteOrder # Nil
    /\ dd.LineWidth # 0

(***************************************************************************)
(* C17: session isolation.  With two sessions whose Write and Flush calls  *)
(* are interleaved, every line of a session is colored according to that   *)
(* session's own color mode.                                               *)
(***************************************************************************)
C17_SessionIsolation ==
    \A s \in DOMAIN sess :
        \A i \in 1..Len(sess[s].Output.lines) :
            sess[s].Output.lines[i].colored = WantsColor(sess[s])

(***************************************************************************)
(* C20: one-time initialization.  For any order of Write and Flush calls   *)
(* on a new Dumper: init has run before the first line is rendered; once   *)
(* init has run there is exactly one Formatter, ever constructed, built    *)
(* from the resolved output, theme, byte order and line width; and a call  *)
(* on an initialized Dumper, which may run init again, leaves the          *)
(* Formatter and the resolved values as they are.                          *)
(***************************************************************************)
C20_InitOnce ==
    [][\A s \in DOMAIN sess :
           /\ sess'[s].handed # <<>> => sess'[s].inits >= 1
           /\ sess'[s].inits >= 1
                => /\ sess'[s].formatters = 1
                   /\ FormatterOf(sess'[s])
                   /\ Resolved(sess'[s])
           /\ sess[s].inits >= 1
                => /\ sess'[s].f = sess[s].f
                   /\ sess'[s].Output.dest = sess[s].Output.dest
                   /\ sess'[s].Theme = sess[s].Theme
                   /\ sess'[s].ByteOrder = sess[s].ByteOrder
                   /\ sess'[s].LineWidth = sess[s].LineWidth]_vars

C20_Witness ==
    /\ DOMAIN sess = Sessions
    /\ sess[1].inits = MaxInits
    /\ sess[1].Theme = DefaultTheme
    /\ sess[1].LineWidth = DefaultLineWidth
    /\ Len(sess[1].Output.lines) >= 2
    /\ sess[2].inits >= 2
    /\ sess[2].handed # <<>>

(***************************************************************************)
(* Vocabulary of the properties of the sink.                               *)
(***************************************************************************)
\* The last call returned success.
ReturnedSuccess == ret.op # "none" /\ ret.err = ErrNil

\* The lines a step handed to the formatter.
NewHanded == SubSeq(d'.handed, Len(d.handed) + 1, Len(d'.handed))

\* The step results of a line whose four steps all ran and succeeded.
AllStepsNil == <<ErrNil, ErrNil, ErrNil, ErrNil>>

C22_AbortOnFirstFailure ==
    [][/\ \A i \in 1..Len(d'.ran) :
              \A j \in 1..Len(d'.ran[i]) :
                  d'.ran[i][j] # ErrNil => j = Len(d'.ran[i])
       /\ (\E i \in (Len(d.ran) + 1)..Len(d'.ran) : d'.ran[i] # AllStepsNil)
          => /\ ret'.err # ErrNil
             /\ d'.ran[Len(d'.ran)] # AllStepsNil
             /\ \A i \in (Len(d.ran) + 1)..(Len(d'.ran) - 1) :
                    d'.ran[i] = AllStepsNil]_vars

(***************************************************************************)
(* C23: positive line width.  The line width is > 0 in every state in      *)
(* which bytes are buffered or a line has been rendered, and from          *)
(* initialization on, when the offset, leading-skip and payload-length     *)
(* arithmetic uses it: a line width of 0 has become the default 16, and no *)
(* negative line width has got that far.                                   *)
(***************************************************************************)
C23_PositiveLineWidth ==
    /\ (d.b # <<>> \/ d.handed # <<>> \/ d.inits > 0) => d.LineWidth > 0
    /\ (d.inits > 0 /\ opts.LineWidth = 0) => d.LineWidth = DefaultLineWidth

\* the bytes Bytes or Stream skipped before the first Write
Skipped ==
    IF api = "Bytes" /\ pc = "done" /\ ~BytesPanics(input, opts) /\ opts.Skip > 0
    THEN opts.Skip
    ELSE IF api = "Stream" /\ pc # "new"
    THEN StreamSkip(input, opts).pos
    ELSE 0

\* the bytes that have left the queue so far
Dequeued == Len(wrote) - Len(d.b)

(***************************************************************************)
(* C24: stream position.  In every reachable state, also after a Write or  *)
(* Flush that returned an error, Start + off is the absolute position of   *)
(* the byte at the head of the queue: off is the count of skipped bytes    *)
(* plus the count of bytes removed from the queue so far.                  *)
(***************************************************************************)
C24_StreamPosition ==
    d.off = Skipped + Dequeued

====
